---- MODULE Spec2Model ----
(***************************************************************************)
(* Model of src/sudokuSolver.py: Grid (parse, copy, is_solved), the two     *)
(* variable selectors, the AC3 propagator and the Backtracking search, run  *)
(* the way the main loop runs them: read_file, copy, then                   *)
(* pre_process_consistency + search with FirstAvailable on g and with MRV   *)
(* on g_copy.                                                               *)
(*                                                                         *)
(* The source fixes the box side to 3 (width 9).  The model keeps the box   *)
(* side as the definition BoxDim and is checked at BoxDim = 2 (a 4x4 grid   *)
(* with 2x2 boxes and the digits "1234"); every operator below is written   *)
(* for an arbitrary BoxDim.                                                 *)
(*                                                                         *)
(* Python objects are modelled with a heap: a row of a grid is a mutable    *)
(* list, so `rows` maps row identities to their contents and a grid's       *)
(* _cells is the sequence of the identities of its rows.  Domains are       *)
(* Python strings: sequences of one-character strings.  Coordinates are     *)
(* 0-based as in the source.                                                *)
(***************************************************************************)
EXTENDS Integers, Sequences, FiniteSets, TLC

\* ---------------------------------------------------------------- bounds
BoxDim == 2          \* side of a box (3 in the source)
MaxGivenDigit == 3   \* the givens are digits 1 .. MaxGivenDigit
MaxBadGivens == 1    \* most givens of the puzzles that are then malformed

Width == BoxDim * BoxDim
NumCells == Width * Width
Idx == 0 .. (Width - 1)
Coords == Idx \X Idx

DigitChars == <<"1", "2", "3", "4", "5", "6", "7", "8", "9">>
complete_domain == SubSeq(DigitChars, 1, Width)
Digits == {complete_domain[k] : k \in 1 .. Width}

\* ------------------------------------------------------- string helpers
\* s.startswith(v)
StartsWith(s, v) == Len(v) <= Len(s) /\ SubSeq(s, 1, Len(v)) = v

\* cell.replace(v, ''): every non-overlapping occurrence of v, scanning
\* from the left, is dropped
RECURSIVE Replace(_, _)
Replace(s, v) ==
    IF Len(v) = 0 \/ Len(s) = 0 THEN s
    ELSE IF StartsWith(s, v) THEN Replace(SubSeq(s, Len(v) + 1, Len(s)), v)
    ELSE <<Head(s)>> \o Replace(Tail(s), v)

\* ------------------------------------------------------------ heap access
\* grid.get_cells()[i][j] for the grid whose _cells is b, in heap rs
Cell(rs, b, i, j) == rs[b[i + 1]][j + 1]

\* The assignment with its indices the other way round:
\* grid.get_cells()[j][i] = d
SetCell_transposed(rs, b, i, j, d) == [rs EXCEPT ![b[j + 1]][i + 1] = d]

\* grid.get_cells()[i][j] = d
SetCell(rs, b, i, j, d) == [rs EXCEPT ![b[i + 1]][j + 1] = d]

\* the contents of a grid: its rows by value
Content(rs, b) == [k \in 1 .. Len(b) |-> rs[b[k]]]

\* fresh row identities: the n smallest naturals not in use
RECURSIVE FreshIds(_, _)
FreshIds(used, n) ==
    IF n = 0 THEN <<>>
    ELSE LET id == CHOOSE x \in 0 .. Cardinality(used) : x \notin used
         IN <<id>> \o FreshIds(used \cup {id}, n - 1)

SeqRange(s) == {s[k] : k \in 1 .. Len(s)}

\* ------------------------------------------------------------------ Grid
\* Grid.read_file: the rows appended to _cells, as values.  A row is
\* appended each time the character count reaches a multiple of the width;
\* a trailing partial row is dropped.
RECURSIVE ReadRows(_, _, _, _)
ReadRows(s, k, row, acc) ==
    IF k > Len(s) THEN acc
    ELSE LET p == s[k]
             row2 == Append(row, IF p = "." THEN complete_domain ELSE <<p>>)
         IN IF k % Width = 0
            THEN ReadRows(s, k + 1, <<>>, Append(acc, row2))
            ELSE ReadRows(s, k + 1, row2, acc)

read_file(string_puzzle) == ReadRows(string_puzzle, 1, <<>>, <<>>)

\* Grid.is_solved
is_solved(rs, b) == \A i \in Idx : \A j \in Idx : Len(Cell(rs, b, i, j)) = 1

\* Grid.copy as it would be with copy_grid._cells = self._cells: the copy
\* shares the rows of the original.
GridCopy_shared(rs, b) == [rows |-> rs, cells |-> b]

\* Grid.copy: a new list of new row lists, each a copy of a row of b.
\* Returns the heap with the new rows and the new grid's _cells.
GridCopy(rs, b) ==
    LET ids == FreshIds(DOMAIN rs, Len(b))
        new == SeqRange(ids)
        src(x) == b[CHOOSE k \in 1 .. Len(b) : ids[k] = x]
    IN [rows |-> [x \in (DOMAIN rs) \cup new |->
                     IF x \in new THEN rs[src(x)] ELSE rs[x]],
        cells |-> ids]

\* ------------------------------------------------------ variable selectors
NoneVal == <<>>      \* Python's None

\* The scan as it would be if it went on after a hit and kept the last
\* cell with more than one candidate.
RECURSIVE FirstAvailableFrom_last(_, _, _)
FirstAvailableFrom_last(rs, b, k) ==
    IF k >= NumCells THEN NoneVal
    ELSE LET i == k \div Width
             j == k % Width
             later == FirstAvailableFrom_last(rs, b, k + 1)
         IN IF later # NoneVal THEN later
            ELSE IF Len(Cell(rs, b, i, j)) > 1 THEN <<i, j>>
            ELSE NoneVal

\* FirstAvailable.select_variable: first cell in row-major order with more
\* than one candidate; falls off the loops (None) when there is none
RECURSIVE FirstAvailableFrom(_, _, _)
FirstAvailableFrom(rs, b, k) ==
    IF k >= NumCells THEN NoneVal
    ELSE LET i == k \div Width
             j == k % Width
         IN IF Len(Cell(rs, b, i, j)) > 1 THEN <<i, j>>
            ELSE FirstAvailableFrom(rs, b, k + 1)

FirstAvailable(rs, b) == FirstAvailableFrom(rs, b, 0)

\* The scan of MRV as it would be with the comparison d_len < small_domain.
RECURSIVE MRVFrom_strict(_, _, _, _, _)
MRVFrom_strict(rs, b, k, var, small_domain) ==
    IF k >= NumCells THEN var
    ELSE LET i == k \div Width
             j == k % Width
             d_len == Len(Cell(rs, b, i, j))
         IN IF d_len < small_domain /\ d_len # 1
            THEN MRVFrom_strict(rs, b, k + 1, <<i, j>>, d_len)
            ELSE MRVFrom_strict(rs, b, k + 1, var, small_domain)

\* MRV.select_variable: var starts as (0, 0), small_domain as the width;
\* a cell replaces var when d_len <= small_domain and d_len != 1
RECURSIVE MRVFrom(_, _, _, _, _)
MRVFrom(rs, b, k, var, small_domain) ==
    IF k >= NumCells THEN var
    ELSE LET i == k \div Width
             j == k % Width
             d_len == Len(Cell(rs, b, i, j))
         IN IF d_len <= small_domain /\ d_len # 1
            THEN MRVFrom(rs, b, k + 1, <<i, j>>, d_len)
            ELSE MRVFrom(rs, b, k + 1, var, small_domain)

MRV(rs, b) == MRVFrom(rs, b, 0, <<0, 0>>, Width)

select_variable(sel, rs, b) ==
    IF sel = "FirstAvailable" THEN FirstAvailable(rs, b) ELSE MRV(rs, b)

\* --------------------------------------------------------------------- AC3
\* A peer visit that writes the new domain before it looks at its length.
Visit_write_first(rs, b, row, column, i, j, acc) ==
    LET cell == Cell(rs, b, i, j)
        new_domain == Replace(cell, Cell(rs, b, row, column))
    IN [stop |-> Len(new_domain) = 0,
        rows |-> SetCell(rs, b, i, j, new_domain),
        vars |-> IF Len(new_domain) = 1 /\ Len(cell) > 1
                 THEN Append(acc, <<i, j>>) ELSE acc]

\* A peer visit that records every cell left with one value
\* (if len(new_domain) == 1, without `and len(cell) > 1`).
Visit_record_fixed(rs, b, row, column, i, j, acc) ==
    LET cell == Cell(rs, b, i, j)
        new_domain == Replace(cell, Cell(rs, b, row, column))
    IN [stop |-> Len(new_domain) = 0,
        rows |-> IF Len(new_domain) = 0 THEN rs
                 ELSE SetCell(rs, b, i, j, new_domain),
        vars |-> IF Len(new_domain) = 1
                 THEN Append(acc, <<i, j>>) ELSE acc]

\* One peer visit of remove_domain_*: the value of (row, column) is removed
\* from cell (i, j).  An empty result returns (None, True) at once, without
\* the write; a cell that becomes a singleton is recorded; then the write.
Visit(rs, b, row, column, i, j, acc) ==
    LET cell == Cell(rs, b, i, j)
        new_domain == Replace(cell, Cell(rs, b, row, column))
    IN [stop |-> Len(new_domain) = 0,
        rows |-> IF Len(new_domain) = 0 THEN rs
                 ELSE SetCell(rs, b, i, j, new_domain),
        vars |-> IF Len(new_domain) = 1 /\ Len(cell) > 1
                 THEN Append(acc, <<i, j>>) ELSE acc]

\* AC3.remove_domain_row, from column j on
RECURSIVE RemoveRowFrom(_, _, _, _, _, _)
RemoveRowFrom(rs, b, row, column, j, acc) ==
    IF j >= Width THEN [rows |-> rs, vars |-> acc, flag |-> FALSE]
    ELSE IF j = column THEN RemoveRowFrom(rs, b, row, column, j + 1, acc)
    ELSE LET v == Visit(rs, b, row, column, row, j, acc)
         IN IF v.stop THEN [rows |-> v.rows, vars |-> NoneVal, flag |-> TRUE]
            ELSE RemoveRowFrom(v.rows, b, row, column, j + 1, v.vars)

remove_domain_row(rs, b, row, column) ==
    RemoveRowFrom(rs, b, row, column, 0, <<>>)

\* AC3.remove_domain_column, from row i on
RECURSIVE RemoveColumnFrom(_, _, _, _, _, _)
RemoveColumnFrom(rs, b, row, column, i, acc) ==
    IF i >= Width THEN [rows |-> rs, vars |-> acc, flag |-> FALSE]
    ELSE IF i = row THEN RemoveColumnFrom(rs, b, row, column, i + 1, acc)
    ELSE LET v == Visit(rs, b, row, column, i, column, acc)
         IN IF v.stop THEN [rows |-> v.rows, vars |-> NoneVal, flag |-> TRUE]
            ELSE RemoveColumnFrom(v.rows, b, row, column, i + 1, v.vars)

\* remove_domain_column as it would be if the column were left alone.
remove_domain_column_skipped(rs, b, row, column) ==
    [rows |-> rs, vars |-> <<>>, flag |-> FALSE]

remove_domain_column(rs, b, row, column) ==
    RemoveColumnFrom(rs, b, row, column, 0, <<>>)

\* AC3.remove_domain_unit: the box of (row, column), row-major, from the
\* k-th cell of the box on
RECURSIVE RemoveUnitFrom(_, _, _, _, _, _)
RemoveUnitFrom(rs, b, row, column, k, acc) ==
    LET r0 == (row \div BoxDim) * BoxDim
        c0 == (column \div BoxDim) * BoxDim
        i == r0 + (k \div BoxDim)
        j == c0 + (k % BoxDim)
    IN IF k >= BoxDim * BoxDim THEN [rows |-> rs, vars |-> acc, flag |-> FALSE]
       ELSE IF <<i, j>> = <<row, column>>
       THEN RemoveUnitFrom(rs, b, row, column, k + 1, acc)
       ELSE LET v == Visit(rs, b, row, column, i, j, acc)
            IN IF v.stop THEN [rows |-> v.rows, vars |-> NoneVal, flag |-> TRUE]
               ELSE RemoveUnitFrom(v.rows, b, row, column, k + 1, v.vars)

\* remove_domain_unit as it would be if the box were left alone.
remove_domain_unit_skipped(rs, b, row, column) ==
    [rows |-> rs, vars |-> <<>>, flag |-> FALSE]

remove_domain_unit(rs, b, row, column) ==
    RemoveUnitFrom(rs, b, row, column, 0, <<>>)

\* The loop body as it would be if the cells the box pass fixed were not
\* added to Q (for v in row_vars + col_vars).
LoopBody_unit_vars_dropped(rs, b, var) ==
    LET r == var[1]
        c == var[2]
        rowR == remove_domain_row(rs, b, r, c)
        colR == remove_domain_column(rowR.rows, b, r, c)
        unitR == remove_domain_unit(colR.rows, b, r, c)
        failed == rowR.flag \/ colR.flag \/ unitR.flag
    IN [rows |-> unitR.rows,
        failed |-> failed,
        added |-> IF failed THEN {} ELSE SeqRange(rowR.vars \o colR.vars),
        afterRow |-> rowR.rows,
        afterColumn |-> colR.rows,
        rowFlag |-> rowR.flag,
        colFlag |-> colR.flag,
        unitFlag |-> unitR.flag]

\* The body of one iteration of the while loop of AC3.consistency for the
\* popped var: the three removals run one after the other on the same grid,
\* whatever the earlier ones returned; the flags are looked at afterwards.
LoopBody(rs, b, var) ==
    LET r == var[1]
        c == var[2]
        rowR == remove_domain_row(rs, b, r, c)
        colR == remove_domain_column(rowR.rows, b, r, c)
        unitR == remove_domain_unit(colR.rows, b, r, c)
        failed == rowR.flag \/ colR.flag \/ unitR.flag
    IN [rows |-> unitR.rows,
        failed |-> failed,
        added |-> IF failed THEN {}
                  ELSE SeqRange(rowR.vars \o colR.vars \o unitR.vars),
        afterRow |-> rowR.rows,
        afterColumn |-> colR.rows,
        rowFlag |-> rowR.flag,
        colFlag |-> colR.flag,
        unitFlag |-> unitR.flag]

\* the queue AC3.pre_process_consistency builds: every cell with one value
FixedCells(rs, b) == {v \in Coords : Len(Cell(rs, b, v[1], v[2])) = 1}

\* ------------------------------------------------------------ Backtracking
\* Backtracking.consistent: False when d_val is the value of a fixed cell
\* of the row, the column or the box of (row, col)
consistent(rs, b, d_val, row, col) ==
    LET r0 == (row \div BoxDim) * BoxDim
        c0 == (col \div BoxDim) * BoxDim
        fixedAs(i, j) == Len(Cell(rs, b, i, j)) = 1 /\ Cell(rs, b, i, j) = d_val
    IN /\ \A i \in Idx : ~fixedAs(row, i) /\ ~fixedAs(i, col)
       /\ \A i \in r0 .. (r0 + BoxDim - 1) :
             \A j \in c0 .. (c0 + BoxDim - 1) : ~fixedAs(i, j)

\* ------------------------------------------------------------------ inputs
\* The cells that may hold a given in the input puzzles.  With four digits
\* they give puzzles with no, one and several completions, puzzles with a
\* digit twice in a row, a column or a box, and puzzles without a
\* completion whose givens do not clash.
ClueCells == {<<0, 0>>, <<0, 1>>, <<2, 0>>, <<3, 3>>}

\* The digits the givens are drawn from.
GivenDigits == {complete_domain[k] : k \in 1 .. MaxGivenDigit}

\* the puzzle string with the givens giv (a function from cells to digit
\* characters) and '.' elsewhere
PuzzleOf(giv) ==
    [k \in 1 .. NumCells |->
        LET v == <<(k - 1) \div Width, (k - 1) % Width>>
        IN IF v \in DOMAIN giv THEN giv[v] ELSE "."]

PuzzlesWith(n) ==
    UNION {{PuzzleOf(f) : f \in [S -> GivenDigits]} :
              S \in {T \in SUBSET ClueCells : Cardinality(T) <= n}}

\* every choice of givens on the clue cells
WellFormedInputs == PuzzlesWith(Cardinality(ClueCells))

\* one character short, one character long (the line's newline), and one
\* cell replaced by a character that is neither a digit 1..9 nor '.'
MalformedInputs ==
    UNION {{SubSeq(p, 1, NumCells - 1),
            Append(p, "\n"),
            [p EXCEPT ![NumCells - 1] = "x"],
            [p EXCEPT ![NumCells - 1] = "0"]} : p \in PuzzlesWith(MaxBadGivens)}

Inputs == WellFormedInputs \cup MalformedInputs

\* ------------------------------------------------------------------- state
VARIABLES
    string_puzzle,   \* p, the line of the problems file
    rows,            \* the heap: row identity -> the row's list of domains
    g,               \* g._cells: the row identities of the grid g
    g_copy,          \* g_copy._cells
    pc,              \* where the main loop body is
    var_selector,    \* the strategy of the run in progress
    Q,               \* the queue of the propagation pass in progress
    stack,           \* the frames of Backtracking.search, outermost first
    arg,             \* the grid a call of search is being made on
    ret,             \* the value a call of search is returning
    flag,            \* what AC3.consistency returned in each initial sweep
    result,          \* what the top-level search returned in each run
    pass_start,      \* the contents and the queue the pass in progress began with
    popped           \* the cells the pass in progress has popped, and how many pops

vars == <<string_puzzle, rows, g, g_copy, pc, var_selector, Q, stack, arg,
          ret, flag, result, pass_start, popped>>

Selectors == {"FirstAvailable", "MRV"}

\* values a call of search returns
RetNone == [kind |-> "none"]
RetFalse == [kind |-> "False"]
RetGrid(b) == [kind |-> "grid", cells |-> b]

\* the grid the run in progress works on: g for FirstAvailable, g_copy for MRV
RunGrid == IF var_selector = "FirstAvailable" THEN g ELSE g_copy

\* Reference counting: the rows no live grid refers to are released.
Collect(rs, live) == [x \in (DOMAIN rs) \cap live |-> rs[x]]

FrameRefs(st) ==
    UNION {SeqRange(st[k].grid) \cup SeqRange(st[k].copy_grid) : k \in 1 .. Len(st)}

NoPass == [cells |-> <<>>, Q |-> {}]

NoPops == [cells |-> {}, n |-> 0]

\* AC3.pre_process_consistency ends with the statement
\* self.consistency(grid, Q), whose value f it does not return: whatever f
\* is, the caller gets None.
pre_process_consistency_value(f) == "None"

RetRefs(r) == IF r.kind = "grid" THEN SeqRange(r.cells) ELSE {}

Init ==
    /\ string_puzzle \in Inputs
    /\ rows = <<>>
    /\ g = <<>>
    /\ g_copy = <<>>
    /\ pc = "read"
    /\ var_selector = "FirstAvailable"
    /\ Q = {}
    /\ stack = <<>>
    /\ arg = <<>>
    /\ ret = RetNone
    /\ flag = [s \in Selectors |-> "none"]
    /\ result = [s \in Selectors |-> RetNone]
    /\ pass_start = NoPass
    /\ popped = NoPops

\* ----------------------------------------------------------------- actions
Top == stack[Len(stack)]

SetTop(f) == [stack EXCEPT ![Len(stack)] = f]

Live(gg, gc, st, a, r) ==
    SeqRange(gg) \cup SeqRange(gc) \cup FrameRefs(st) \cup SeqRange(a) \cup RetRefs(r)

\* g = Grid(); g.read_file(p)
ReadFile ==
    /\ pc = "read"
    /\ LET vals == read_file(string_puzzle)
           ids == FreshIds({}, Len(vals))
       IN /\ g' = ids
          /\ rows' = [x \in SeqRange(ids) |->
                         vals[CHOOSE k \in 1 .. Len(ids) : ids[k] = x]]
    /\ pc' = "copy"
    /\ UNCHANGED <<string_puzzle, g_copy, var_selector, Q, stack, arg, ret,
                   flag, result, pass_start, popped>>

\* g_copy = g.copy()
Copy ==
    /\ pc = "copy"
    /\ LET c == GridCopy(rows, g)
       IN /\ rows' = c.rows
          /\ g_copy' = c.cells
    /\ pc' = "pre"
    /\ UNCHANGED <<string_puzzle, g, var_selector, Q, stack, arg, ret, flag,
                   result, pass_start, popped>>

\* AC3().pre_process_consistency(grid), up to the call of consistency: the
\* scan of the width x width cells builds Q; a grid with fewer rows than the
\* width makes the scan raise IndexError, which nothing catches
PreProcess ==
    /\ pc = "pre"
    /\ IF Len(RunGrid) < Width
       THEN /\ pc' = "IndexError"
            /\ UNCHANGED <<Q, pass_start, popped>>
       ELSE /\ pc' = "ac3"
            /\ Q' = FixedCells(rows, RunGrid)
            /\ pass_start' = [cells |-> Content(rows, RunGrid), Q |-> Q']
            /\ popped' = NoPops
    /\ UNCHANGED <<string_puzzle, rows, g, g_copy, var_selector, stack, arg,
                   ret, flag, result>>

\* the grid the propagation pass in progress works on
PassGrid == IF stack = <<>> THEN RunGrid ELSE Top.copy_grid

\* The next digit of the caller's for loop, after a trial ended.
NextDigit(f) == [f EXCEPT !.k = f.k + 1, !.copy_grid = <<>>]

\* One iteration of the while loop of AC3.consistency: var = Q.pop() takes
\* an arbitrary element.  A contradiction returns True; in the initial
\* sweep pre_process_consistency drops that value and the main loop goes on
\* to call search; in search the for loop goes on to the next digit.
ConsistencyStep ==
    /\ pc = "ac3"
    /\ \E var \in Q :
          LET body == LoopBody(rows, PassGrid, var)
          IN IF ~body.failed
             THEN /\ Q' = (Q \ {var}) \cup body.added
                  /\ rows' = body.rows
                  /\ popped' = [cells |-> popped.cells \cup {var},
                                n |-> popped.n + 1]
                  /\ UNCHANGED <<pc, stack, arg, flag, pass_start>>
             ELSE /\ Q' = {}
                  /\ pass_start' = NoPass
                  /\ popped' = NoPops
                  /\ IF stack = <<>>
                     THEN /\ flag' = [flag EXCEPT ![var_selector] = "True"]
                          /\ pc' = "call"
                          /\ arg' = RunGrid
                          /\ stack' = stack
                          /\ rows' = body.rows
                     ELSE /\ flag' = flag
                          /\ pc' = "loop"
                          /\ arg' = arg
                          /\ stack' = SetTop(NextDigit(Top))
                          /\ rows' = Collect(body.rows,
                                             Live(g, g_copy, stack', arg, ret))
    /\ UNCHANGED <<string_puzzle, g, g_copy, var_selector, ret, result>>

\* The while loop of AC3.consistency ends with Q empty: return False.  The
\* main loop (after the initial sweep) or search (on its copy) then calls
\* search.
ConsistencyEnd ==
    /\ pc = "ac3"
    /\ Q = {}
    /\ pc' = "call"
    /\ pass_start' = NoPass
    /\ popped' = NoPops
    /\ IF stack = <<>>
       THEN /\ flag' = [flag EXCEPT ![var_selector] = "False"]
            /\ arg' = RunGrid
       ELSE /\ flag' = flag
            /\ arg' = Top.copy_grid
    /\ UNCHANGED <<string_puzzle, rows, g, g_copy, var_selector, Q, stack,
                   ret, result>>

\* Backtracking.search up to its for loop: a solved grid is returned as it
\* is; otherwise the selector's result is unpacked into i, j (None cannot
\* be unpacked: TypeError) and the loop over the characters of the selected
\* cell's domain starts.
SearchCall ==
    /\ pc = "call"
    /\ IF is_solved(rows, arg)
       THEN /\ ret' = RetGrid(arg)
            /\ pc' = "return"
            /\ stack' = stack
       ELSE LET v == select_variable(var_selector, rows, arg)
            IN IF v = NoneVal
               THEN /\ pc' = "TypeError"
                    /\ stack' = stack
                    /\ ret' = ret
               ELSE /\ pc' = "loop"
                    /\ ret' = ret
                    /\ stack' = Append(stack,
                          [grid |-> arg, i |-> v[1], j |-> v[2],
                           dom |-> Cell(rows, arg, v[1], v[2]),
                           k |-> 1, copy_grid |-> <<>>])
    /\ arg' = <<>>
    /\ UNCHANGED <<string_puzzle, rows, g, g_copy, var_selector, Q, flag,
                   result, pass_start, popped>>

\* The iteration of the for loop as it would be without the assignment
\* copy_grid.get_cells()[i][j] = d.
ForDigit_unassigned ==
    /\ pc = "loop"
    /\ Top.k <= Len(Top.dom)
    /\ LET f == Top
           d == <<f.dom[f.k]>>
       IN IF consistent(rows, f.grid, d, f.i, f.j)
          THEN LET c == GridCopy(rows, f.grid)
               IN /\ rows' = c.rows
                  /\ stack' = SetTop([f EXCEPT !.copy_grid = c.cells])
                  /\ Q' = {<<f.i, f.j>>}
                  /\ pc' = "ac3"
                  /\ pass_start' = [cells |-> Content(rows', c.cells), Q |-> Q']
                  /\ popped' = NoPops
          ELSE /\ stack' = SetTop(NextDigit(f))
               /\ UNCHANGED <<rows, Q, pc, pass_start, popped>>
    /\ UNCHANGED <<string_puzzle, g, g_copy, var_selector, arg, ret, flag,
                   result>>

\* One iteration of the for loop of search, up to the call of consistency:
\* a digit the pre-check rejects is skipped; otherwise the grid is copied,
\* the digit is written to the copy and Q = {(i, j)}.
ForDigit ==
    /\ pc = "loop"
    /\ Top.k <= Len(Top.dom)
    /\ LET f == Top
           d == <<f.dom[f.k]>>
       IN IF consistent(rows, f.grid, d, f.i, f.j)
          THEN LET c == GridCopy(rows, f.grid)
               IN /\ rows' = SetCell(c.rows, c.cells, f.i, f.j, d)
                  /\ stack' = SetTop([f EXCEPT !.copy_grid = c.cells])
                  /\ Q' = {<<f.i, f.j>>}
                  /\ pc' = "ac3"
                  /\ pass_start' = [cells |-> Content(rows', c.cells), Q |-> Q']
                  /\ popped' = NoPops
          ELSE /\ stack' = SetTop(NextDigit(f))
               /\ UNCHANGED <<rows, Q, pc, pass_start, popped>>
    /\ UNCHANGED <<string_puzzle, g, g_copy, var_selector, arg, ret, flag,
                   result>>

\* The for loop of search is exhausted: return False.
ForExhausted ==
    /\ pc = "loop"
    /\ Top.k > Len(Top.dom)
    /\ stack' = SubSeq(stack, 1, Len(stack) - 1)
    /\ ret' = RetFalse
    /\ pc' = "return"
    /\ rows' = Collect(rows, Live(g, g_copy, stack', arg, ret'))
    /\ UNCHANGED <<string_puzzle, g, g_copy, var_selector, Q, arg, flag,
                   result, pass_start, popped>>

\* A call of search returns to a frame of search: a grid (truthy) is
\* returned further at once, False moves the for loop to the next digit.
ReturnToSearch ==
    /\ pc = "return"
    /\ stack # <<>>
    /\ IF ret.kind = "grid"
       THEN /\ stack' = SubSeq(stack, 1, Len(stack) - 1)
            /\ UNCHANGED <<ret, pc>>
       ELSE /\ stack' = SetTop(NextDigit(Top))
            /\ ret' = RetNone
            /\ pc' = "loop"
    /\ rows' = Collect(rows, Live(g, g_copy, stack', arg, ret'))
    /\ UNCHANGED <<string_puzzle, g, g_copy, var_selector, Q, arg, flag,
                   result, pass_start, popped>>

\* The top-level call of search returns to the main loop, which goes on to
\* the MRV run on g_copy, or is done with this problem.  `result` keeps what
\* was returned, a grid by its contents.
ReturnToMain ==
    /\ pc = "return"
    /\ stack = <<>>
    /\ result' = [result EXCEPT ![var_selector] =
                     IF ret.kind = "grid"
                     THEN [kind |-> "grid", cells |-> Content(rows, ret.cells)]
                     ELSE ret]
    /\ ret' = RetNone
    /\ IF var_selector = "FirstAvailable"
       THEN /\ var_selector' = "MRV"
            /\ pc' = "pre"
       ELSE /\ var_selector' = var_selector
            /\ pc' = "done"
    /\ rows' = Collect(rows, Live(g, g_copy, stack, arg, ret'))
    /\ UNCHANGED <<string_puzzle, g, g_copy, Q, stack, arg, flag, pass_start,
                   popped>>

Next ==
    \/ ReadFile
    \/ Copy
    \/ PreProcess
    \/ ConsistencyStep
    \/ ConsistencyEnd
    \/ SearchCall
    \/ ForDigit
    \/ ForExhausted
    \/ ReturnToSearch
    \/ ReturnToMain

Spec == Init /\ [][Next]_vars

\* The main loop body is still running: some action is enabled exactly in
\* these states.
Running == pc \notin {"done", "IndexError", "TypeError"}

\* The program is sequential and keeps executing until it ends or raises:
\* weak fairness of Next, WF_vars(Next).  Next is enabled exactly when
\* Running holds and every step of Next changes vars, so the condition is
\* written without ENABLED: a behaviour in which Running holds from some
\* point on takes steps again and again.
LiveSpec == Spec /\ ([]<>(~Running) \/ []<><<TRUE>>_vars)

\* ------------------------------------------------------ vocabulary of the claims
\* a well-formed puzzle: one character per cell, each a digit or '.'
WellFormed(p) ==
    /\ Len(p) = NumCells
    /\ \A k \in 1 .. Len(p) : p[k] \in Digits \cup {"."}

\* the groups: the rows, the columns and the boxes, as sets of cells
RowGroup(i) == {<<i, j>> : j \in Idx}
ColGroup(j) == {<<i, j>> : i \in Idx}
BoxGroup(n) ==
    {<<(n \div BoxDim) * BoxDim + di, (n % BoxDim) * BoxDim + dj>> :
        di \in 0 .. (BoxDim - 1), dj \in 0 .. (BoxDim - 1)}
Groups ==
    {RowGroup(i) : i \in Idx} \cup {ColGroup(j) : j \in Idx}
        \cup {BoxGroup(n) : n \in Idx}

Peers(v) == (UNION {G \in Groups : v \in G}) \ {v}

\* the character of cell v in the puzzle string p
CharAt(p, v) == p[v[1] * Width + v[2] + 1]

\* cells is a grid by value (a sequence of rows of domains): every domain
\* is a singleton and every group holds every digit exactly once
ValidSolved(cells) ==
    /\ Len(cells) = Width
    /\ \A v \in Coords : Len(cells[v[1] + 1][v[2] + 1]) = 1
    /\ \A G \in Groups : \A d \in Digits :
          Cardinality({v \in G : cells[v[1] + 1][v[2] + 1] = <<d>>}) = 1

\* The completion of the well-formed puzzle a found first when the empty
\* cells are filled in row-major order from cell number k on, trying the
\* digits in the order ds; <<>> when there is none.  A completion gives
\* every cell a digit, keeps the givens and has no digit twice in a group.
RECURSIVE Completion(_, _, _)
RECURSIVE TryDigits(_, _, _, _)
Clash(a, v, d) == \E w \in Peers(v) : CharAt(a, w) = d
Completion(a, k, ds) ==
    IF k > NumCells THEN a
    ELSE LET v == <<(k - 1) \div Width, (k - 1) % Width>>
         IN IF a[k] # "."
            THEN IF Clash(a, v, a[k]) THEN <<>> ELSE Completion(a, k + 1, ds)
            ELSE TryDigits(a, k, ds, 1)
TryDigits(a, k, ds, n) ==
    IF n > Len(ds) THEN <<>>
    ELSE LET v == <<(k - 1) \div Width, (k - 1) % Width>>
             c == IF Clash(a, v, ds[n]) THEN <<>>
                  ELSE Completion([a EXCEPT ![k] = ds[n]], k + 1, ds)
         IN IF c # <<>> THEN c ELSE TryDigits(a, k, ds, n + 1)

Reverse(s) == [k \in 1 .. Len(s) |-> s[Len(s) + 1 - k]]
FirstCompletion(p) == Completion(p, 1, complete_domain)
LastCompletion(p) == Completion(p, 1, Reverse(complete_domain))
HasCompletion(p) == FirstCompletion(p) # <<>>
UniqueCompletion(p) == HasCompletion(p) /\ FirstCompletion(p) = LastCompletion(p)

\* some row of the puzzle holds the same digit twice among its givens
RowDuplicate(p) ==
    \E i \in Idx : \E v \in RowGroup(i) : \E w \in RowGroup(i) \ {v} :
        /\ CharAt(p, v) \in Digits
        /\ CharAt(p, v) = CharAt(p, w)

Finished(sel) == result[sel].kind # "none"

\* ---------------------------------------------------------------------- C1
\* C1 (soundness): whatever the input and the strategy, a grid returned by
\* pre_process_consistency followed by search has only singleton domains
\* and every row, column and box holds each digit exactly once.  The claim
\* is about every input; it is stated here for the well-formed ones, so that
\* a violation is not one of the input format.
C1_Soundness ==
    WellFormed(string_puzzle) =>
        \A sel \in Selectors :
            result[sel].kind = "grid" => ValidSolved(result[sel].cells)

\* ---------------------------------------------------------------------- C2
\* C2 (completeness): for a well-formed puzzle and either strategy, the run
\* raises no exception, returns a grid exactly when the puzzle has a valid
\* completion agreeing with the givens, and returns False otherwise.
C2_Completeness ==
    WellFormed(string_puzzle) =>
        /\ pc \notin {"IndexError", "TypeError"}
        /\ \A sel \in Selectors :
              Finished(sel) =>
                 /\ result[sel].kind = "grid" <=> HasCompletion(string_puzzle)
                 /\ ~HasCompletion(string_puzzle) => result[sel].kind = "False"

\* ---------------------------------------------------------------------- C3
\* C3 (contradiction detection): for a puzzle with the same digit twice
\* among the givens of one row, the initial sweep signals a contradiction to
\* its caller and the search that follows returns False, not a grid.
C3_ContradictionDetection ==
    (WellFormed(string_puzzle) /\ RowDuplicate(string_puzzle)) =>
        \A sel \in Selectors :
            /\ flag[sel] # "none" =>
                  pre_process_consistency_value(flag[sel]) = "True"
            /\ Finished(sel) => result[sel].kind = "False"

\* ---------------------------------------------------------------------- C4
\* C4 (strategy independence): for a solvable well-formed puzzle both runs
\* return a solved grid, and when the puzzle has exactly one completion the
\* two grids are equal cell for cell.
C4_StrategyIndependence ==
    (pc = "done" /\ WellFormed(string_puzzle) /\ HasCompletion(string_puzzle)) =>
        /\ \A sel \in Selectors :
              /\ result[sel].kind = "grid"
              /\ ValidSolved(result[sel].cells)
        /\ UniqueCompletion(string_puzzle) =>
              result["FirstAvailable"].cells = result["MRV"].cells

\* both runs are over on a puzzle with exactly one completion, with the
\* same grid returned twice
C4_Witness ==
    /\ pc = "done"
    /\ WellFormed(string_puzzle)
    /\ UniqueCompletion(string_puzzle)
    /\ result["FirstAvailable"].kind = "grid"
    /\ result["FirstAvailable"] = result["MRV"]

\* ---------------------------------------------------------------------- C5
\* an input that is not 81 characters (here NumCells) long, or holds a
\* character that is neither a digit 1..9 nor '.'
Malformed(p) ==
    \/ Len(p) # NumCells
    \/ \E k \in 1 .. Len(p) : p[k] \notin Digits \cup {"."}

\* C5 (format rejection): read_file on a malformed string ends in a
\* FormatError and leaves the grid's cells as they were (no row appended).
C5_FormatRejection ==
    (Malformed(string_puzzle) /\ pc # "read") =>
        /\ pc = "FormatError"
        /\ g = <<>>

\* ---------------------------------------------------------------------- C6
\* AC3.consistency with Q.pop() always taking the first cell of Q in
\* row-major order, run to its end on the grid by value cells: the verdict
\* and the contents it ends with.
IdCells == [k \in 1 .. Width |-> k]
FirstOf(q) ==
    CHOOSE v \in q : \A w \in q : v[1] * Width + v[2] <= w[1] * Width + w[2]
RECURSIVE ConsistencyInOrder(_, _)
ConsistencyInOrder(cells, q) ==
    IF q = {} THEN [failed |-> FALSE, cells |-> cells]
    ELSE LET var == FirstOf(q)
             body == LoopBody(cells, IdCells, var)
         IN IF body.failed THEN [failed |-> TRUE, cells |-> body.rows]
            ELSE ConsistencyInOrder(body.rows, (q \ {var}) \cup body.added)

\* C6 (confluence): whatever the order of the pops, a pass returns the
\* verdict the row-major order returns on the grid and queue the pass began
\* with, and when that is 'no contradiction' it leaves the same contents.
C6_Confluence ==
    [][(pc = "ac3" /\ pc' # "ac3") =>
          LET ref == ConsistencyInOrder(pass_start.cells, pass_start.Q)
          IN /\ ref.failed = (Q # {})
             /\ Q = {} => Content(rows, PassGrid) = ref.cells]_vars

\* a pass that has changed its grid and has two cells or more to pop from
C6_Witness ==
    /\ pc = "ac3"
    /\ Cardinality(Q) >= 2
    /\ Content(rows, PassGrid) # pass_start.cells

\* ---------------------------------------------------------------------- C7
\* no fixed cell's value is a candidate of another cell of its groups
ArcConsistent(rs, b) ==
    \A v \in Coords :
        Len(Cell(rs, b, v[1], v[2])) = 1 =>
            \A w \in Peers(v) :
                Cell(rs, b, v[1], v[2])[1] \notin SeqRange(Cell(rs, b, w[1], w[2]))

\* search is being called on a grid whose last pass ended without a
\* contradiction: a recursive call, or the top-level call after a sweep in
\* which consistency returned False
CalledAfterCleanPass ==
    /\ pc = "call"
    /\ stack # <<>> \/ flag[var_selector] = "False"

\* C7 (arc consistency at the fixed point): a grid whose propagation pass
\* ended without contradiction, and so every such grid search is called on,
\* has no fixed cell's value in the domain of another cell of its row,
\* column or box.
C7_ArcConsistency ==
    CalledAfterCleanPass => ArcConsistent(rows, arg)

\* ---------------------------------------------------------------------- C8
\* C8 (no empty domain stored): every cell of every grid in the heap, and
\* of every grid returned, has a non-empty domain, also right after a
\* removal that would have emptied one was reported as a contradiction.
C8_NoEmptyDomain ==
    /\ \A x \in DOMAIN rows : \A j \in 1 .. Len(rows[x]) : Len(rows[x][j]) >= 1
    /\ \A sel \in Selectors :
          result[sel].kind = "grid" =>
             \A i \in 1 .. Len(result[sel].cells) :
                \A j \in 1 .. Len(result[sel].cells[i]) :
                   Len(result[sel].cells[i][j]) >= 1

\* the initial sweep has just reported a contradiction: some removal would
\* have emptied a domain
C8_Witness ==
    /\ pc = "call"
    /\ stack = <<>>
    /\ flag[var_selector] = "True"

\* ---------------------------------------------------------------------- C9
\* C9 (idempotence): on a grid whose propagation pass ended without
\* contradiction, pre_process_consistency run again (Q = every fixed cell)
\* reports no contradiction and changes no domain.
C9_Idempotence ==
    CalledAfterCleanPass =>
        ConsistencyInOrder(Content(rows, arg), FixedCells(rows, arg))
            = [failed |-> FALSE, cells |-> Content(rows, arg)]

\* --------------------------------------------------------------------- C10
\* the grids with a call of search in progress on them
SearchedGrids == {stack[k].grid : k \in 1 .. Len(stack)}

\* the grids no step of the search in progress may write: those with a call
\* of search in progress, the grid about to be searched or returned, and
\* the grid of the other run
Owned ==
    (IF stack # <<>> \/ pc \in {"call", "return"} THEN SearchedGrids \cup {RunGrid}
     ELSE {})
    \cup (IF pc \in {"ac3", "call", "loop", "return"} THEN {g, g_copy} \ {RunGrid}
          ELSE {})

\* C10 (board ownership): no step of search, of the propagation on a clone
\* or of Grid.copy changes the contents of a grid search was called on, nor
\* of the other run's grid: every write goes to the newest clone only.
C10_BoardOwnership ==
    [][\A b \in Owned :
          SeqRange(b) \subseteq DOMAIN rows' => Content(rows', b) = Content(rows, b)]_vars

\* a frame that has tried a digit on a clone, with the clone gone, whose own
\* grid still holds the domain the loop iterates over
C10_Witness ==
    /\ pc = "loop"
    /\ Top.k > 1
    /\ Cell(rows, Top.grid, Top.i, Top.j) = Top.dom
    /\ \E k \in 1 .. (Top.k - 1) :
          consistent(rows, Top.grid, <<Top.dom[k]>>, Top.i, Top.j)

\* --------------------------------------------------------------------- C11
\* the grids the selectors are looked at on: the parsed grid of each run
\* before its sweep, and every grid search is called on (solved or not)
SelectorGrids ==
    IF pc = "call" THEN {arg}
    ELSE IF pc = "pre" /\ Len(RunGrid) = Width THEN {RunGrid}
    ELSE {}

\* the position of a cell in the row-major scan
Pos(v) == v[1] * Width + v[2]

\* the cells with more than one candidate, and those of them with the
\* fewest candidates
OpenCells(rs, b) == {v \in Coords : Len(Cell(rs, b, v[1], v[2])) > 1}
SmallestOpen(rs, b) ==
    LET size == [v \in Coords |-> Len(Cell(rs, b, v[1], v[2]))]
        open == {v \in Coords : size[v] > 1}
    IN {v \in open : \A w \in open : size[v] <= size[w]}

\* C11 (MRV selection) as claimed: on a grid with a cell of more than one
\* candidate, MRV.select_variable returns a cell of the smallest size
\* greater than one, the FIRST such cell in row-major order.
C11_MRVSelection ==
    \A b \in SelectorGrids :
        LET small == SmallestOpen(rows, b)
            var == MRV(rows, b)
        IN small # {} =>
              /\ var \in small
              /\ \A w \in small : Pos(var) <= Pos(w)

\* C11 as amended: the cell returned has the smallest size greater than
\* one and is the LAST such cell in row-major order.
C11_MRVSelectionLast ==
    \A b \in SelectorGrids :
        LET small == SmallestOpen(rows, b)
            var == MRV(rows, b)
        IN small # {} =>
              /\ var \in small
              /\ \A w \in small : Pos(w) <= Pos(var)

\* search, run with MRV, has just selected its cell on a grid where several
\* cells have the smallest size greater than one, and some cell is larger
C11_Witness ==
    /\ pc = "loop"
    /\ var_selector = "MRV"
    /\ Top.k = 1
    /\ Cardinality(SmallestOpen(rows, Top.grid)) >= 2
    /\ SmallestOpen(rows, Top.grid) # OpenCells(rows, Top.grid)
    /\ <<Top.i, Top.j>> \in SmallestOpen(rows, Top.grid)

\* --------------------------------------------------------------------- C12
\* C12 (strategy result contract): on a grid of non-empty domains each
\* strategy returns a cell with more than one candidate when there is one,
\* and otherwise the 'none' signal, which is not the coordinates of a cell;
\* it never returns a fixed cell.
C12_StrategyResultContract ==
    \A b \in SelectorGrids : \A sel \in Selectors :
        LET var == select_variable(sel, rows, b)
        IN IF OpenCells(rows, b) # {}
           THEN var \in OpenCells(rows, b)
           ELSE var \notin Coords

\* --------------------------------------------------------------------- C13
\* C13 (parsing): read_file on a string of one character per cell gives a
\* grid of Width rows in row-major order in which a cell whose character is
\* '.' or '0' holds the full domain and a cell whose character is a digit
\* holds that digit alone.
C13_Parsing ==
    (pc = "copy" /\ Len(string_puzzle) = NumCells) =>
        /\ Len(g) = Width
        /\ \A v \in Coords :
              LET p == CharAt(string_puzzle, v)
              IN /\ p \in {".", "0"} => Cell(rows, g, v[1], v[2]) = complete_domain
                 /\ p \in Digits => Cell(rows, g, v[1], v[2]) = <<p>>

\* --------------------------------------------------------------------- C14
\* the number of fixed cells of a grid
NumFixed(rs, b) == Cardinality(FixedCells(rs, b))

\* C14 (search termination and depth bound): the grid of each recursive
\* call of search has strictly more fixed cells than the grid of the calling
\* frame, the recursion is never deeper than the number of cells (81 in the
\* source), and every run of search comes to its end: the main loop body
\* finishes both runs, unless read_file left too few rows for the sweep.
C14_SearchTermination ==
    /\ [](/\ Len(stack) <= NumCells
          /\ (pc = "call" /\ stack # <<>>) =>
                NumFixed(rows, arg) > NumFixed(rows, Top.grid))
    /\ <>(pc \in {"done", "IndexError"})

\* a frame that is itself a recursive call makes a recursive call
C14_Witness ==
    /\ pc = "call"
    /\ Len(stack) >= 2
    /\ ~is_solved(rows, arg)

\* --------------------------------------------------------------------- C15
\* C15 (immediate stop on contradiction): whichever cell the pass in
\* progress pops next, once a removal would empty a peer's domain no
\* further cell is modified before consistency returns True: after a
\* contradiction in the row pass the grid stays as the row pass left it,
\* and after one in the column pass as the column pass left it.
C15_ImmediateStop ==
    pc = "ac3" =>
        \A var \in Q :
            LET body == LoopBody(rows, PassGrid, var)
            IN /\ body.rowFlag => body.rows = body.afterRow
               /\ (~body.rowFlag /\ body.colFlag) => body.rows = body.afterColumn

\* --------------------------------------------------------------------- C16
\* the cells of the grid of the pass that a step leaves with one value and
\* that had more than one before it
NewlyFixed ==
    {w \in Coords : /\ Len(Cell(rows, PassGrid, w[1], w[2])) > 1
                    /\ Len(Cell(rows', PassGrid, w[1], w[2])) = 1}

\* C16 (propagation pass termination): in a pass no cell waiting in the
\* queue has been popped before, the pops made are as many as the cells
\* popped and fewer than the number of cells (81 in the source) while a pop
\* is still to come; and an iteration that does not end the pass adds to
\* the queue exactly the cells it shrinks from several values to one.
C16_PassTermination ==
    /\ [](pc = "ac3" =>
             /\ Q \cap popped.cells = {}
             /\ popped.n = Cardinality(popped.cells)
             /\ Q # {} => popped.n < NumCells)
    /\ [][(pc = "ac3" /\ pc' = "ac3") =>
             \E var \in Q :
                /\ popped'.cells = popped.cells \cup {var}
                /\ Q' = (Q \ {var}) \cup NewlyFixed]_vars

\* a pass that has popped several cells, one of them added during the pass,
\* and has more to pop
C16_Witness ==
    /\ pc = "ac3"
    /\ popped.n >= 2
    /\ Q # {}
    /\ popped.cells \ pass_start.Q # {}

\* --------------------------------------------------------------------- C17
\* the grid read_file builds from the input, by value
Parsed == read_file(string_puzzle)

\* every candidate of the domain a is a candidate of the domain c
SubDomain(a, c) == SeqRange(a) \subseteq SeqRange(c)

\* C17 (domains only shrink, givens preserved): a propagation step and a
\* clone with its assignment leave every cell a subset of what it was; the
\* grid of every call of search is cell by cell within the grid it was
\* derived from (the caller's grid, or the parsed puzzle); and a grid
\* returned by search gives every cell a value of its parsed domain, so it
\* agrees with every given digit.
C17_DomainsShrink ==
    /\ [](/\ pc = "call" =>
                \A v \in Coords :
                    SubDomain(Cell(rows, arg, v[1], v[2]),
                              IF stack = <<>> THEN Parsed[v[1] + 1][v[2] + 1]
                              ELSE Cell(rows, Top.grid, v[1], v[2]))
          /\ \A sel \in Selectors :
                result[sel].kind = "grid" =>
                    \A v \in Coords :
                        /\ SubDomain(result[sel].cells[v[1] + 1][v[2] + 1],
                                     Parsed[v[1] + 1][v[2] + 1])
                        /\ CharAt(string_puzzle, v) \in Digits =>
                              result[sel].cells[v[1] + 1][v[2] + 1]
                                  = <<CharAt(string_puzzle, v)>>)
    /\ [][/\ (pc = "ac3" /\ pc' = "ac3") =>
                \A v \in Coords :
                    SubDomain(Cell(rows', PassGrid, v[1], v[2]),
                              Cell(rows, PassGrid, v[1], v[2]))
          /\ (pc = "loop" /\ pc' = "ac3") =>
                \A v \in Coords :
                    SubDomain(Cell(rows', PassGrid', v[1], v[2]),
                              Cell(rows, Top.grid, v[1], v[2]))]_vars

\* the MRV run has returned a grid for a puzzle with givens and unknowns,
\* after a search that branched
C17_Witness ==
    /\ pc = "return"
    /\ var_selector = "MRV"
    /\ Len(stack) = 1
    /\ ret.kind = "grid"
    /\ result["FirstAvailable"].kind = "grid"
    /\ \E k \in 1 .. Len(string_puzzle) : string_puzzle[k] \in Digits

\* --------------------------------------------------------------------- C18
\* the grid, by value, whose cells hold the characters of the string a
AsGrid(a) ==
    [i \in 1 .. Width |-> [j \in 1 .. Width |-> <<a[(i - 1) * Width + j]>>]]

\* C18 (first solution under FirstAvailable): for a well-formed puzzle with
\* a valid completion, the run with FirstAvailable returns the completion
\* that is least in lexicographic order of the cell values read row-major
\* (the one found by filling the unknown cells in row-major order with the
\* least digit that can still be completed).
C18_FirstSolution ==
    (/\ pc = "pre"
     /\ var_selector = "MRV"
     /\ WellFormed(string_puzzle)
     /\ HasCompletion(string_puzzle)) =>
        /\ result["FirstAvailable"].kind = "grid"
        /\ result["FirstAvailable"].cells = AsGrid(FirstCompletion(string_puzzle))

\* the FirstAvailable run has returned the least completion of a puzzle
\* that has several
C18_Witness ==
    /\ pc = "pre"
    /\ var_selector = "MRV"
    /\ WellFormed(string_puzzle)
    /\ HasCompletion(string_puzzle)
    /\ ~UniqueCompletion(string_puzzle)
    /\ result["FirstAvailable"].kind = "grid"
    /\ result["FirstAvailable"].cells = AsGrid(FirstCompletion(string_puzzle))

\* --------------------------------------------------------------------- C19
\* the digits of the selected cell's domain that Backtracking.consistent
\* rejects on the grid of the innermost frame
Rejected ==
    {Top.dom[k] : k \in {n \in 1 .. Len(Top.dom) :
        ~consistent(rows, Top.grid, <<Top.dom[n]>>, Top.i, Top.j)}}

====
